---- MODULE Spec2Model ----
(***************************************************************************)
(* Model of the AI service of tg-bot (src/src/index.ts, lines 208-654):    *)
(* the per-user conversation history kept in a process-wide Map, and the   *)
(* traversal of the (model, endpoint) candidates of callHuggingFace.       *)
(*                                                                         *)
(* A JavaScript string is a sequence of tokens; the token " " is a         *)
(* whitespace character, every other token is non-whitespace text.  A      *)
(* JSON value is a record tagged with its JavaScript type.  An array of    *)
(* the JavaScript heap is an entry of `arrays`, named by an identifier, so *)
(* that two references to the same array see each other's push.            *)
(***************************************************************************)
EXTENDS Integers, Sequences, FiniteSets, TLC

(***************************************************************************)
(* Bounds of the model.                                                    *)
(***************************************************************************)
MaxCalls == 3           \* calls started in a behaviour of Spec
MaxInFlight == 2        \* calls in flight at once in Spec
MaxFaults == 1          \* fetches of one call that do not end in 2xx, in Spec
WindowInFlight == 2     \* calls in flight at once in SpecWindow
WindowCalls == 6        \* calls started in a behaviour of SpecWindow
WindowFaults == 1       \* fetches of one call that do not end in 2xx, in SpecWindow
TraversalCalls == 1     \* calls started in a behaviour of SpecTraversal
TraversalFaults == 18   \* fetches of one call that do not end in 2xx, in SpecTraversal

(***************************************************************************)
(* Strings.                                                                *)
(***************************************************************************)
Whitespace == {" "}

RECURSIVE TrimStart(_)
TrimStart(s) ==
  IF s # <<>> /\ Head(s) \in Whitespace THEN TrimStart(Tail(s)) ELSE s

RECURSIVE TrimEnd(_)
TrimEnd(s) ==
  IF s # <<>> /\ s[Len(s)] \in Whitespace
    THEN TrimEnd(SubSeq(s, 1, Len(s) - 1))
    ELSE s

\* String.prototype.trim
Trim(s) == TrimEnd(TrimStart(s))

(***************************************************************************)
(* JSON values, tagged with the result of typeof / Array.isArray.          *)
(***************************************************************************)
JUndefined == [t |-> "undefined"]
JNull == [t |-> "null"]
JString(s) == [t |-> "string", v |-> s]
JNumber(n) == [t |-> "number", v |-> n]
JArray(xs) == [t |-> "array", v |-> xs]
JObject(f) == [t |-> "object", v |-> f]

\* ToBoolean
Truthy(x) ==
  CASE x.t = "undefined" -> FALSE
    [] x.t = "null" -> FALSE
    [] x.t = "string" -> x.v # <<>>
    [] x.t = "number" -> x.v # 0
    [] OTHER -> TRUE

\* x.k for a value x that is neither null nor undefined
Prop(x, k) ==
  IF x.t = "object" /\ k \in DOMAIN x.v THEN x.v[k] ELSE JUndefined

\* x[0]
First(x) ==
  IF x.t = "array" /\ x.v # <<>> THEN x.v[1] ELSE JUndefined

\* a ?? b
Coalesce(a, b) == IF a.t \in {"undefined", "null"} THEN b ELSE a

(***************************************************************************)
(* Response bodies.  A body is its text; JSON.parse is the table below.    *)
(***************************************************************************)
OkBodies ==
  { "{\"choices\":[{\"message\":{\"content\":\"a\"}}]}",
    "{\"choices\":[{\"message\":{\"content\":\" \"}}]}",
    "{\"choices\":[{\"text\":\" a \"}]}",
    "{\"choices\":[null]}",
    "{\"choices\":[],\"output_text\":\"a\"}",
    "{\"generated_text\":\"a \"}",
    "{\"generated_text\":\" \"}",
    "{\"generated_text\":42}",
    "{\"text\":\" a\"}",
    "[{\"generated_text\":\"a\"}]",
    "[{\"generated_text\":\"\"}]",
    "[{\"content\":\" \"}]",
    "[\"a\"]",
    "[]",
    "\"a\"",
    "null",
    "{}",
    "<html>" }

ErrBodies ==
  { "{\"error\":{\"code\":\"model_not_supported\",\"message\":\"m\"}}",
    "{\"error\":\"e\"}",
    "Not Found" }

Bodies == OkBodies \cup ErrBodies

ModelNotSupportedBody ==
  "{\"error\":{\"code\":\"model_not_supported\",\"message\":\"m\"}}"

\* Texts that JSON.parse accepts
IsJSON(text) == text \notin {"<html>", "Not Found", ""}

\* JSON.parse(text), for a text that IsJSON
ParseJSON(text) ==
  CASE text = "{\"choices\":[{\"message\":{\"content\":\"a\"}}]}" ->
         JObject("choices" :> JArray(<<JObject("message" :>
           JObject("content" :> JString(<<"a">>)))>>))
    [] text = "{\"choices\":[{\"message\":{\"content\":\" \"}}]}" ->
         JObject("choices" :> JArray(<<JObject("message" :>
           JObject("content" :> JString(<<" ">>)))>>))
    [] text = "{\"choices\":[{\"text\":\" a \"}]}" ->
         JObject("choices" :> JArray(<<JObject("text" :>
           JString(<<" ", "a", " ">>))>>))
    [] text = "{\"choices\":[null]}" ->
         JObject("choices" :> JArray(<<JNull>>))
    [] text = "{\"choices\":[],\"output_text\":\"a\"}" ->
         JObject("choices" :> JArray(<<>>) @@
                 "output_text" :> JString(<<"a">>))
    [] text = "{\"generated_text\":\"a \"}" ->
         JObject("generated_text" :> JString(<<"a", " ">>))
    [] text = "{\"generated_text\":\" \"}" ->
         JObject("generated_text" :> JString(<<" ">>))
    [] text = "{\"generated_text\":42}" ->
         JObject("generated_text" :> JNumber(42))
    [] text = "{\"text\":\" a\"}" ->
         JObject("text" :> JString(<<" ", "a">>))
    [] text = "[{\"generated_text\":\"a\"}]" ->
         JArray(<<JObject("generated_text" :> JString(<<"a">>))>>)
    [] text = "[{\"generated_text\":\"\"}]" ->
         JArray(<<JObject("generated_text" :> JString(<<>>))>>)
    [] text = "[{\"content\":\" \"}]" ->
         JArray(<<JObject("content" :> JString(<<" ">>))>>)
    [] text = "[\"a\"]" -> JArray(<<JString(<<"a">>)>>)
    [] text = "[]" -> JArray(<<>>)
    [] text = "\"a\"" -> JString(<<"a">>)
    [] text = "null" -> JNull
    [] text = "{}" -> JObject(<<>>)
    [] text = "{\"error\":{\"code\":\"model_not_supported\",\"message\":\"m\"}}" ->
         JObject("error" :> JObject("code" :> JString(<<"model_not_supported">>) @@
                                    "message" :> JString(<<"m">>)))
    [] text = "{\"error\":\"e\"}" -> JObject("error" :> JString(<<"e">>))

(***************************************************************************)
(* extractGeneratedText.  The result is [throws, value]: throws when the   *)
(* code reads a property of null, value the returned JSON value otherwise. *)
(***************************************************************************)
Returns(x) == [throws |-> FALSE, value |-> x]
Throws == [throws |-> TRUE, value |-> JNull]

\* lines 621-645: the array and bare string cases
extractFromArray(data) ==
  IF data.t = "array"
    THEN LET first == First(data)
         IN  IF ~Truthy(first) THEN Returns(JNull)
             ELSE IF first.t = "string" THEN Returns(first)
             ELSE IF first.t \in {"object", "array"}
               THEN LET candidate ==
                          Coalesce(Prop(first, "generated_text"),
                            Coalesce(Prop(first, "output_text"),
                              Coalesce(Prop(first, "text"),
                                       Prop(first, "content"))))
                    IN  IF candidate.t = "string" THEN Returns(candidate)
                        ELSE Returns(JNull)
             ELSE Returns(JNull)
    ELSE IF data.t = "string" THEN Returns(data)
    ELSE Returns(JNull)

\* lines 609-619: the legacy single-object fields
extractFromObject(obj) ==
  IF Truthy(Prop(obj, "generated_text")) THEN Returns(Prop(obj, "generated_text"))
  ELSE IF Truthy(Prop(obj, "output_text")) THEN Returns(Prop(obj, "output_text"))
  ELSE IF Truthy(Prop(obj, "text")) THEN Returns(Prop(obj, "text"))
  ELSE extractFromArray(obj)

extractGeneratedText(data) ==
  IF ~Truthy(data) THEN Returns(JNull)
  ELSE IF data.t \in {"object", "array"}
    THEN LET choices == Prop(data, "choices")
         IN  IF Truthy(choices) /\ choices.t = "array" /\ choices.v # <<>>
               THEN LET choice == First(choices)
                    IN  IF choice.t \in {"null", "undefined"} THEN Throws
                        ELSE IF Truthy(Prop(choice, "message"))
                                /\ Truthy(Prop(Prop(choice, "message"), "content"))
                          THEN Returns(Prop(Prop(choice, "message"), "content"))
                        ELSE IF Truthy(Prop(choice, "text"))
                          THEN Returns(Prop(choice, "text"))
                        ELSE extractFromObject(data)
               ELSE extractFromObject(data)
  ELSE extractFromArray(data)

(***************************************************************************)
(* Configuration and constants of the module (lines 215-227).              *)
(***************************************************************************)
Unset == "<unset>"                 \* a variable absent from process.env
DefaultModel == "meta-llama/Meta-Llama-3-8B-Instruct"
MAX_HISTORY == 10

Users == {1, 2}
OkStatuses == {200}
ErrStatuses == {400, 401, 403, 404, 410, 500, 503}

\* lines 327-370: the endpoint formats, in the order they are tried
endpoints ==
  << [name |-> "router-v1 (v1/chat/completions)", format |-> "chat", modelInUrl |-> FALSE],
     [name |-> "router-v2 (hf-inference)", format |-> "generation", modelInUrl |-> FALSE],
     [name |-> "router-v3 (models path)", format |-> "generation", modelInUrl |-> TRUE] >>

\* the persona text of ./character
getSystemPrompt == <<"persona">>

VARIABLES
  env,                  \* process.env: [HF_API_KEY, HF_MODEL]
  conversationHistory,  \* the Map: user id -> identifier of the stored array
  arrays,               \* the heap: array identifier -> sequence of turns
  origins,              \* per array, for each of its turns: the call that pushed it
  calls,                \* the getAIResponse calls suspended on a fetch
  ret,                  \* what this step was: the value a call handed to its
                        \* caller, or the user whose history was cleared
  log,                  \* per user: the turns of the calls that returned success
  clean,                \* per user: no two calls overlapped since the history was empty
  overlaps,             \* per call in flight: the calls of its user that stored
                        \* their exchange meanwhile (`peers`; `shared` for those
                        \* that held the same array), and whether
                        \* clearUserHistory ran for its user meanwhile
  started,              \* number of calls that issued a request
  scope                 \* the limits of the behaviour:
                        \* [users, messages (of the n-th call), calls, inflight,
                        \*  faults, responses]

vars ==
  <<env, conversationHistory, arrays, origins, calls, ret, log, clean, overlaps,
    started, scope>>

HF_API_KEY == env.HF_API_KEY
HF_MODEL == IF env.HF_MODEL = Unset THEN DefaultModel ELSE env.HF_MODEL

\* !HF_API_KEY that takes the empty string for a key
NoKeyUnsetOnly == HF_API_KEY = Unset

\* !HF_API_KEY
NoKey == HF_API_KEY \in {Unset, ""}

\* lines 317-324
modelsToTry ==
  << HF_MODEL,
     "meta-llama/Meta-Llama-3-8B-Instruct",
     "mistralai/Mistral-7B-Instruct-v0.2",
     "Qwen/Qwen2.5-7B-Instruct",
     "google/gemma-7b-it",
     "HuggingFaceH4/zephyr-7b-beta" >>

(***************************************************************************)
(* Results (AIResponseResult | null).  An absent field is <<>> or "".  A   *)
(* result with thrown = TRUE is an exception on its way up the stack, its  *)
(* message in `error`.                                                     *)
(***************************************************************************)
Null ==
  [isNull |-> TRUE, thrown |-> FALSE, success |-> FALSE, message |-> <<>>,
   error |-> <<>>, errorType |-> ""]
Success(message) ==
  [isNull |-> FALSE, thrown |-> FALSE, success |-> TRUE, message |-> message,
   error |-> <<>>, errorType |-> ""]
Failure(error, errorType) ==
  [isNull |-> FALSE, thrown |-> FALSE, success |-> FALSE, message |-> <<>>,
   error |-> error, errorType |-> errorType]
Exception(message) ==
  [isNull |-> FALSE, thrown |-> TRUE, success |-> FALSE, message |-> <<>>,
   error |-> message, errorType |-> ""]

NoResponse == [status |-> 0, body |-> ""]        \* response === null
Responses ==
  [status : OkStatuses, body : OkBodies]
    \cup [status : {400}, body : ErrBodies]
    \cup [status : ErrStatuses \ {400}, body : ErrBodies \ {ModelNotSupportedBody}]

\* the responses of the behaviours that are about the store
StoreResponses ==
  { [status |-> 200, body |-> "{\"choices\":[{\"message\":{\"content\":\"a\"}}]}"],
    [status |-> 200, body |-> "{\"generated_text\":\" \"}"],
    [status |-> 200, body |-> "{}"],
    [status |-> 200, body |-> "<html>"],
    [status |-> 503, body |-> "Not Found"] }

\* the responses of the behaviours that fill the history up to its cap
WindowResponses ==
  { [status |-> 200, body |-> "{\"choices\":[{\"message\":{\"content\":\"a\"}}]}"],
    [status |-> 200, body |-> "{\"generated_text\":\" \"}"],
    [status |-> 503, body |-> "Not Found"] }

\* the responses of the behaviours that are about the end of the traversal
TerminationResponses ==
  { [status |-> 200, body |-> "{\"choices\":[{\"message\":{\"content\":\"a\"}}]}"],
    [status |-> 400, body |-> ModelNotSupportedBody],
    [status |-> 404, body |-> "Not Found"],
    [status |-> 500, body |-> "{\"error\":\"e\"}"],
    [status |-> 503, body |-> "Not Found"] }

\* response.ok
Ok(response) == response.status \in 200..299

\* a string of the model from a text
Str(text) == IF text = "" THEN <<>> ELSE <<text>>

\* the string an error value is shown as
ToStr(x) ==
  CASE x.t = "string" -> x.v
    [] x.t = "number" -> <<"number">>
    [] x.t \in {"object", "array"} -> <<"[object Object]">>
    [] OTHER -> <<>>

\* a || b
OrElse(a, b) == IF Truthy(a) THEN a ELSE b

\* x?.k
OptProp(x, k) == IF x.t \in {"null", "undefined"} THEN JUndefined ELSE Prop(x, k)

\* lines 497-510
errorMessage(response, lastResponseText) ==
  LET errorData == IF IsJSON(response.body) THEN ParseJSON(response.body) ELSE JNull
      chosen ==
        OrElse(OptProp(errorData, "error"),
          OrElse(OptProp(errorData, "message"),
            OrElse(OptProp(OptProp(errorData, "error"), "message"),
              OrElse(JString(Str(lastResponseText)),
                     JString(<<"Hugging Face API error">>)))))
  IN  ToStr(chosen)

\* lines 536-542: response.json() rejects
parseFailure == Failure(<<"could not parse the API response">>, "api_error")

\* lines 548-557 with another errorType
emptyResponseUnavailable ==
  Failure(<<"empty response from Hugging Face">>, "provider_unavailable")

\* lines 548-557: no generated text
emptyResponse == Failure(<<"empty response from Hugging Face">>, "api_error")

\* lines 531-564: a 2xx response
parseSuccess(response) ==
  IF ~IsJSON(response.body)
    THEN parseFailure
    ELSE LET extracted == extractGeneratedText(ParseJSON(response.body))
             generatedText == extracted.value
         IN  IF extracted.throws
               THEN Exception(<<"TypeError">>)
             ELSE IF generatedText.t \in {"number", "object", "array"}
               THEN Exception(<<"TypeError">>)       \* line 546: no substring
             ELSE IF ~Truthy(generatedText)
               THEN emptyResponse
             ELSE Success(Trim(generatedText.v))

\* parseSuccess, computed once for every 2xx response
parsed == [response \in {r \in Responses : Ok(r)} |-> parseSuccess(response)]

\* classify without the 503 case of lines 480-493
classifyWithout503(response, lastResponseText, lastError) ==
  IF response = NoResponse
    THEN Exception(OrElse(JString(Str(lastError)),
                          JString(<<"could not connect to the API">>)).v)
  ELSE IF ~Ok(response)
    THEN Failure(errorMessage(response, lastResponseText), "api_error")
  ELSE parsed[response]

\* lines 473-564: the body of the try of callHuggingFace once the loop has ended
classify(response, lastResponseText, lastError) ==
  IF response = NoResponse
    THEN Exception(OrElse(JString(Str(lastError)),
                          JString(<<"could not connect to the API">>)).v)
  ELSE IF response.status = 503
    THEN Failure(<<"the model is warming up">>, "provider_unavailable")
  ELSE IF ~Ok(response)
    THEN Failure(errorMessage(response, lastResponseText), "api_error")
  ELSE parsed[response]

\* lines 565-572: the catch of callHuggingFace
catchApiError(r) ==
  IF r.thrown
    THEN Failure(OrElse(JString(r.error), JString(<<"unknown Hugging Face error">>)).v,
                 "api_error")
    ELSE r

\* getAIResponse without its catch
catchNothing(r) == r

\* lines 279-286: the catch of getAIResponse
catchUnknown(r) ==
  IF r.thrown THEN Failure(<<"unexpected error">>, "unknown") ELSE r

\* line 267 without its test
SucceededAlways(response) == TRUE

\* line 267: response.success && response.message
Succeeded(response) == response.success /\ response.message # <<>>

(***************************************************************************)
(* The heap and the store.                                                 *)
(***************************************************************************)
Turn(role, content) == [role |-> role, content |-> content]

\* the identifier of a newly created array
NewArray(heap) ==
  CHOOSE i \in 1..(Cardinality(DOMAIN heap) + 1) :
    /\ i \notin DOMAIN heap
    /\ \A j \in 1..(i - 1) : j \in DOMAIN heap

\* the arrays still referenced by the Map or by a suspended call
Reachable(heap, map, cs) ==
  LET live == {map[u] : u \in DOMAIN map} \cup {cs[c].history : c \in DOMAIN cs}
  IN  [i \in (DOMAIN heap \cap live) |-> heap[i]]

\* conversationHistory.get(userId) || [], as a sequence of turns
Stored(u) ==
  IF u \in DOMAIN conversationHistory THEN arrays[conversationHistory[u]] ELSE <<>>

\* history.slice(-n) that keeps everything
SliceLastKeepsAll(h, n) == h

\* history.slice(-(n - 1)): a cut in the middle of an exchange
SliceLastOdd(h, n) == IF Len(h) > n THEN SubSeq(h, Len(h) - n + 2, Len(h)) ELSE h

\* history.slice(-n)
SliceLast(h, n) == IF Len(h) > n THEN SubSeq(h, Len(h) - n + 1, Len(h)) ELSE h

\* f without the key k
Without(f, k) == [j \in (DOMAIN f \ {k}) |-> f[j]]

\* the calls in flight of user u
InFlight(u) == {c \in DOMAIN calls : calls[c].userId = u}

\* what a call hands to its caller, with what is known of the call: the
\* requests it issued, the last HTTP response it received, whether its last
\* fetch was rejected, whether every fetch was answered 401 or 403, and
\* whether it read the Map, the last request it issued and the last error it
\* recorded, the number of the call, the calls that overlapped it (`peers`,
\* and `shared` for those that read the same array), and whether
\* clearUserHistory ran for its user while it was in flight
Returned(userId, userMessage, result, call, historyRead) ==
  [returned |-> TRUE, userId |-> userId, userMessage |-> userMessage,
   result |-> result, requests |-> call.requests, observed |-> call.observed,
   rejectedLast |-> call.rejectedLast, authOnly |-> call.authOnly,
   historyRead |-> historyRead, cleared |-> 0, known |-> FALSE,
   sent |-> call.sent, lastError |-> call.lastError,
   id |-> call.id, peers |-> {}, shared |-> {}, interrupted |-> FALSE]

\* a call that no call of its user and no clear has overlapped
NoOverlap == [peers |-> {}, shared |-> {}, interrupted |-> FALSE]

NoCall ==
  [requests |-> 0, observed |-> NoResponse, rejectedLast |-> FALSE, authOnly |-> FALSE,
   sent |-> <<>>, lastError |-> "", id |-> 0]

NoRet ==
  [returned |-> FALSE, userId |-> 0, userMessage |-> <<>>, result |-> Null,
   requests |-> 0, observed |-> NoResponse, rejectedLast |-> FALSE,
   authOnly |-> FALSE, historyRead |-> FALSE, cleared |-> 0, known |-> FALSE,
   sent |-> <<>>, lastError |-> "", id |-> 0, peers |-> {}, shared |-> {},
   interrupted |-> FALSE]

\* clearUserHistory(userId) ran in this step; `known` tells whether the Map
\* had an entry for the user
Cleared(userId, known) == [NoRet EXCEPT !.cleared = userId, !.known = known]

(***************************************************************************)
(* The request of a candidate, lines 305 and 327-399.                      *)
(***************************************************************************)
\* lines 576-580
roleLabels(role) ==
  CASE role = "system" -> "System"
    [] role = "user" -> "User"
    [] role = "assistant" -> "Assistant"

\* lines 582-584: the lines `Label: content`, joined with "\n"
RECURSIVE promptLines(_)
promptLines(messages) ==
  IF messages = <<>> THEN <<>>
  ELSE <<roleLabels(Head(messages).role), ": ">> \o Head(messages).content
         \o (IF Len(messages) > 1 THEN <<"\n">> ELSE <<>>)
         \o promptLines(Tail(messages))

\* lines 575-587
buildPrompt(messages) == promptLines(messages) \o <<"\n", "Assistant:">>

\* lines 333-336: the messages of the chat-completion body
chatMessages(messages) ==
  [i \in 1..Len(messages) |->
     [role |-> IF messages[i].role = "assistant" THEN "assistant" ELSE "user",
      content |-> messages[i].content]]

\* lines 384-385: the URL and the body of the request of (model, endpoint); a
\* field the body does not have is empty
body(endpoint, model, messages) ==
  [url |-> IF endpoint.modelInUrl THEN <<endpoint.name, model>> ELSE <<endpoint.name>>,
   model |-> IF endpoint.modelInUrl THEN "" ELSE model,
   messages |-> IF endpoint.format = "chat" THEN chatMessages(messages) ELSE <<>>,
   inputs |-> IF endpoint.format = "chat" THEN <<>> ELSE buildPrompt(messages)]

\* the message list of a call that would hold the history by reference
messagesByReference(call) ==
  <<Turn("system", getSystemPrompt)>>
    \o (IF call.history \in DOMAIN arrays THEN arrays[call.history] ELSE <<>>)
    \o <<Turn("user", call.userMessage)>>

\* lines 256-263: the message list of a call, a copy made when the call started
messagesOf(call) == call.messages

\* the request the call issues for its current candidate
Request(call) ==
  body(endpoints[call.endpoint], modelsToTry[call.model], messagesOf(call))

\* the candidate a request is for: the model identifier, and 1 for the
\* chat-completion format, 2 for the raw-generation format, 3 for the
\* path-parameterized format
Candidate(request) ==
  IF request.messages # <<>> THEN <<request.model, 1>>
  ELSE IF request.model # "" THEN <<request.model, 2>>
  ELSE <<request.url[2], 3>>

\* the model of the current candidate is listed again further down modelsToTry
ListedAgain(call) ==
  \E j \in (call.model + 1)..Len(modelsToTry) : modelsToTry[j] = modelsToTry[call.model]

\* issue the request of the current candidate; `tried` keeps the candidates
\* the call has requested that it can come to again (those of a model that is
\* listed again), `repeated` whether a candidate was requested twice
Issue(call) ==
  [call EXCEPT !.sent = Request(call),
               !.requests = @ + 1,
               !.tried = IF ListedAgain(call)
                           THEN @ \cup {Candidate(Request(call))} ELSE @,
               !.repeated = @ \/ Candidate(Request(call)) \in call.tried]

(***************************************************************************)
(* getAIResponse, lines 243-249: no key.                                   *)
(***************************************************************************)
GetAIResponseDisabled(userId, userMessage) ==
  /\ NoKey
  /\ ret' = Returned(userId, userMessage, Null, NoCall, FALSE)
  /\ UNCHANGED <<env, conversationHistory, arrays, origins, calls, log, clean,
                 overlaps, started, scope>>

(***************************************************************************)
(* getAIResponse, lines 251-263 and 279-286: getSystemPrompt throws while  *)
(* the message list is built; the catch turns it into errorType unknown.   *)
(***************************************************************************)
GetAIResponseThrows(userId, userMessage) ==
  /\ ~NoKey
  /\ ret' = Returned(userId, userMessage,
                      catchUnknown(Exception(<<"getSystemPrompt">>)), NoCall, TRUE)
  /\ UNCHANGED <<env, conversationHistory, arrays, origins, calls, log, clean,
                 overlaps, started, scope>>

(***************************************************************************)
(* getAIResponse, lines 251-265, and callHuggingFace, lines 294-399: read  *)
(* the history, build the message list and issue the first request.        *)
(***************************************************************************)
GetAIResponseStart(userId, userMessage) ==
  /\ ~NoKey
  /\ started < scope.calls
  /\ Cardinality(DOMAIN calls) < scope.inflight
  /\ LET known == userId \in DOMAIN conversationHistory
         history == IF known THEN conversationHistory[userId] ELSE NewArray(arrays)
         heap == IF known THEN arrays ELSE (history :> <<>>) @@ arrays
         messages == <<Turn("system", getSystemPrompt)>> \o heap[history]
                       \o <<Turn("user", userMessage)>>
         c == started + 1
         call == [userId |-> userId, userMessage |-> userMessage,
                  history |-> history, messages |-> messages,
                  model |-> 1, endpoint |-> 1,
                  response |-> NoResponse, lastResponseText |-> "",
                  lastError |-> "", requests |-> 0,
                  observed |-> NoResponse, rejectedLast |-> FALSE,
                  authOnly |-> TRUE, read |-> Stored(userId), sent |-> <<>>,
                  tried |-> {}, repeated |-> FALSE,
                  id |-> c]
     IN  /\ calls' = (c :> Issue(call)) @@ calls
         /\ overlaps' = (c :> NoOverlap) @@ overlaps
         /\ arrays' = heap
         /\ origins' = IF known THEN origins ELSE (history :> <<>>) @@ origins
         /\ clean' = [clean EXCEPT ![userId] = clean[userId] /\ InFlight(userId) = {}]
  /\ started' = started + 1
  /\ ret' = NoRet
  /\ UNCHANGED <<env, conversationHistory, log, scope>>

(***************************************************************************)
(* getAIResponse, lines 265-278: callHuggingFace has returned `result`.    *)
(***************************************************************************)
\* what is noted of the calls left in flight when the call c returns
\* `result`: a call of the same user notes that c stored its exchange while it
\* was in flight, and whether c pushed on the array it holds itself
Overlapped(c, call, result) ==
  [d \in DOMAIN calls \ {c} |->
     IF /\ calls[d].userId = call.userId
        /\ Succeeded(result)
        /\ ~overlaps[c].interrupted
        /\ ~overlaps[d].interrupted
       THEN [overlaps[d] EXCEPT
               !.peers = @ \cup {c},
               !.shared = IF calls[d].history = call.history THEN @ \cup {c} ELSE @]
       ELSE overlaps[d]]

\* what is noted of the calls in flight after clearUserHistory(userId)
Interrupted(userId) ==
  [d \in DOMAIN calls |->
     IF calls[d].userId = userId
       THEN [peers |-> {}, shared |-> {}, interrupted |-> TRUE]
       ELSE overlaps[d]]

\* the exchange appended to a copy of the history the call read when it started
PushedOnRead(call, result) ==
  call.read \o <<Turn("user", call.userMessage), Turn("assistant", result.message)>>

\* lines 268-269: the two pushes, on the array the call holds
Pushed(call, result) ==
  arrays[call.history]
    \o <<Turn("user", call.userMessage), Turn("assistant", result.message)>>

Return(c, call, result) ==
  LET userId == call.userId
      rest == Without(calls, c)
      pushed == Pushed(call, result)
      sliced == Len(pushed) > MAX_HISTORY
      heap1 == [arrays EXCEPT ![call.history] = pushed]
      history == IF sliced THEN NewArray(heap1) ELSE call.history
      heap2 == IF sliced THEN (history :> SliceLast(pushed, MAX_HISTORY)) @@ heap1 ELSE heap1
      map == (userId :> history) @@ conversationHistory
      pushedBy == origins[call.history] \o <<c, c>>
      by1 == [origins EXCEPT ![call.history] = pushedBy]
      by2 == IF sliced THEN (history :> SliceLast(pushedBy, MAX_HISTORY)) @@ by1 ELSE by1
  IN  /\ IF Succeeded(result)
           THEN /\ conversationHistory' = map
                /\ arrays' = Reachable(heap2, map, rest)
                /\ origins' = Reachable(by2, map, rest)
           ELSE /\ conversationHistory' = conversationHistory
                /\ arrays' = Reachable(arrays, conversationHistory, rest)
                /\ origins' = Reachable(origins, conversationHistory, rest)
      /\ calls' = rest
      /\ overlaps' = Overlapped(c, call, result)
      /\ ret' = [Returned(userId, call.userMessage, result, call, TRUE) EXCEPT
                   !.peers = overlaps[c].peers,
                   !.shared = overlaps[c].shared,
                   !.interrupted = overlaps[c].interrupted]
      /\ log' = IF result.success
                  THEN [log EXCEPT ![userId] =
                          @ \o <<Turn("user", call.userMessage),
                                 Turn("assistant", result.message)>>]
                  ELSE log

(***************************************************************************)
(* callHuggingFace, lines 379-471: the candidate loop.                     *)
(***************************************************************************)
\* the outer loop that stops after its first model
HasNextModelNever(call) == FALSE

\* the loop has a candidate after (model, endpoint), or after the model
HasNextEndpoint(call) == call.endpoint < Len(endpoints)
HasNextModel(call) == call.model < Len(modelsToTry)

\* a loop that requests the candidate it has just requested once more
NextCandidateAgain(call) == Issue(call)

\* `continue`, or the end of the body of the inner loop: issue the next request
NextCandidate(call) ==
  IF HasNextEndpoint(call)
    THEN Issue([call EXCEPT !.endpoint = @ + 1])
    ELSE Issue([call EXCEPT !.model = @ + 1, !.endpoint = 1])

\* `break` out of the inner loop: issue the first request of the next model
NextModel(call) ==
  Issue([call EXCEPT !.model = @ + 1, !.endpoint = 1])

\* lines 446-458 without the break of line 453
ModelNotSupportedNever(text) == FALSE

\* lines 446-458: errorData?.error?.code === "model_not_supported"
ModelNotSupported(text) ==
  /\ IsJSON(text)
  /\ LET code == OptProp(OptProp(ParseJSON(text), "error"), "code")
     IN  code.t = "string" /\ code.v = <<"model_not_supported">>

\* the message of the Error of lines 439 and 460
StatusError(status) == IF status = 404 THEN "404 Not Found" ELSE "Status"

\* what callHuggingFace returns to getAIResponse once the loop has ended, and
\* what getAIResponse makes of it
callHuggingFace(call) ==
  catchUnknown(catchApiError(classify(call.response, call.lastResponseText, call.lastError)))

\* the loop ends without a 2xx response, or goes on with the call `next`
Continue(c, call, more, next) ==
  IF more
    THEN /\ calls' = [calls EXCEPT ![c] = next]
         /\ ret' = NoRet
         /\ UNCHANGED <<conversationHistory, arrays, origins, log, overlaps>>
    ELSE Return(c, call, callHuggingFace(call))

\* lines 392-418: fetch resolves with a 2xx response; the loop ends
FetchOk(c, response) ==
  /\ c \in DOMAIN calls
  /\ Ok(response)
  /\ LET call == [calls[c] EXCEPT !.response = response,
                                  !.lastResponseText = response.body,
                                  !.observed = response,
                                  !.rejectedLast = FALSE,
                                  !.authOnly = FALSE]
     IN  Return(c, call, callHuggingFace(call))
  /\ UNCHANGED <<env, clean, started, scope>>

\* lines 392-463: fetch resolves with a response that is not 2xx
FetchError(c, response) ==
  /\ c \in DOMAIN calls
  /\ ~Ok(response)
  /\ calls[c].requests <= scope.faults
  /\ LET call == [calls[c] EXCEPT !.response = response,
                                  !.lastResponseText = response.body,
                                  !.observed = response,
                                  !.rejectedLast = FALSE,
                                  !.authOnly = @ /\ response.status \in {401, 403}]
         failed == [call EXCEPT !.lastError = StatusError(response.status)]
     IN  IF response.status \in {503, 410}
           THEN Continue(c, call, HasNextEndpoint(call) \/ HasNextModel(call),
                         NextCandidate(call))
         ELSE IF response.status = 404
           THEN Continue(c, failed, HasNextEndpoint(call) \/ HasNextModel(call),
                         NextCandidate(failed))
         ELSE IF response.status = 400 /\ ModelNotSupported(response.body)
           THEN Continue(c, call, HasNextModel(call), NextModel(call))
         ELSE Continue(c, failed, HasNextEndpoint(call) \/ HasNextModel(call),
                       NextCandidate(failed))
  /\ UNCHANGED <<env, clean, started, scope>>

\* lines 464-469: fetch rejects
FetchRejects(c) ==
  /\ c \in DOMAIN calls
  /\ calls[c].requests <= scope.faults
  /\ LET call == [calls[c] EXCEPT !.lastError = "fetch failed",
                                  !.rejectedLast = TRUE,
                                  !.authOnly = FALSE]
     IN  Continue(c, call, HasNextEndpoint(call) \/ HasNextModel(call),
                  NextCandidate(call))
  /\ UNCHANGED <<env, clean, started, scope>>

(***************************************************************************)
(* clearUserHistory, lines 290-292.                                        *)
(***************************************************************************)
\* conversationHistory.delete(userId) that deletes nothing
DeleteNothing(map, userId) == map

\* conversationHistory.clear() in the place of delete(userId)
DeleteEvery(map, userId) == <<>>

\* conversationHistory.delete(userId)
Delete(map, userId) == Without(map, userId)

ClearUserHistory(userId) ==
  /\ conversationHistory' = Delete(conversationHistory, userId)
  /\ arrays' = Reachable(arrays, Delete(conversationHistory, userId), calls)
  /\ origins' = Reachable(origins, Delete(conversationHistory, userId), calls)
  /\ log' = [log EXCEPT ![userId] = <<>>]
  /\ clean' = [clean EXCEPT ![userId] = InFlight(userId) = {}]
  /\ ret' = Cleared(userId, userId \in DOMAIN conversationHistory)
  /\ overlaps' = Interrupted(userId)
  /\ UNCHANGED <<env, calls, started, scope>>

(***************************************************************************)
(* Specifications.                                                         *)
(***************************************************************************)
Start(models, limits) ==
  /\ env \in [HF_API_KEY : {Unset, "", "hf_token"}, HF_MODEL : models]
  /\ conversationHistory = <<>>
  /\ arrays = <<>>
  /\ origins = <<>>
  /\ calls = <<>>
  /\ overlaps = <<>>
  /\ ret = NoRet
  /\ log = [u \in Users |-> <<>>]
  /\ clean = [u \in Users |-> TRUE]
  /\ started = 0
  /\ scope = limits

Init ==
  Start({Unset},
        [users |-> Users, messages |-> [n \in 1..MaxCalls |-> {<<ToString(n)>>}],
         calls |-> MaxCalls, inflight |-> MaxInFlight,
         faults |-> MaxFaults, responses |-> StoreResponses])

InitWindow ==
  Start({Unset},
        [users |-> {1}, messages |-> [n \in 1..WindowCalls |-> {<<ToString(n)>>}],
         calls |-> WindowCalls, inflight |-> WindowInFlight,
         faults |-> WindowFaults, responses |-> WindowResponses])

InitTraversal ==
  Start({Unset, "custom/model"},
        [users |-> {1}, messages |-> [n \in 1..TraversalCalls |-> {<<ToString(n)>>}],
         calls |-> TraversalCalls, inflight |-> 1,
         faults |-> TraversalFaults, responses |-> Responses])

InitTermination ==
  Start({Unset},
        [users |-> {1}, messages |-> [n \in 1..TraversalCalls |-> {<<ToString(n)>>}],
         calls |-> TraversalCalls, inflight |-> 1,
         faults |-> TraversalFaults, responses |-> TerminationResponses])

\* the messages the next call may carry
Messages == scope.messages[IF started < scope.calls THEN started + 1 ELSE scope.calls]

Next ==
  \/ \E u \in scope.users, m \in Messages : GetAIResponseDisabled(u, m)
  \/ \E u \in scope.users, m \in Messages : GetAIResponseThrows(u, m)
  \/ \E u \in scope.users, m \in Messages : GetAIResponseStart(u, m)
  \/ \E c \in DOMAIN calls, r \in scope.responses : FetchOk(c, r)
  \/ \E c \in DOMAIN calls, r \in scope.responses : FetchError(c, r)
  \/ \E c \in DOMAIN calls : FetchRejects(c)
  \/ \E u \in scope.users : ClearUserHistory(u)

\* the pending fetch of the call c resolves or rejects
Completes(c) ==
  \/ \E r \in scope.responses : FetchOk(c, r) \/ FetchError(c, r)
  \/ FetchRejects(c)

Spec == Init /\ [][Next]_vars
SpecWindow == InitWindow /\ [][Next]_vars
SpecTraversal == InitTraversal /\ [][Next]_vars

\* WF_vars(Completes(c)) written out: a pending fetch can always resolve, so
\* Completes(c) is enabled exactly in the states where the call c is in flight
Fair(c) == []<>(c \notin DOMAIN calls) \/ []<><<Completes(c)>>_vars

\* every network request eventually completes or fails
SpecTermination ==
  /\ InitTermination
  /\ [][Next]_vars
  /\ \A c \in 1..TraversalCalls : Fair(c)

(***************************************************************************)
(* Properties.                                                             *)
(***************************************************************************)
\* what the Map holds for every user: whether there is an entry, and its turns
StoreView ==
  [u \in Users |-> [present |-> u \in DOMAIN conversationHistory, turns |-> Stored(u)]]

\* the last n elements of s
LastTurns(s, n) == [i \in 1..n |-> s[Len(s) - n + i]]

Min(a, b) == IF a < b THEN a ELSE b

ErrorTypes == {"insufficient_balance", "api_error", "provider_unavailable", "unknown"}

\* a call returned in the step that led to this state, with a result that is not null
CallReturned == ret.returned /\ ~ret.result.isNull

\* C1: in every reachable state the history stored for each user has at most
\* MAX_HISTORY turns, whatever the interleaving of calls and clears.
C1_HistoryBounded == \A u \in Users : Len(Stored(u)) <= MAX_HISTORY

\* C1, witness: a full history from which turns were evicted, after calls that overlapped
C1_Witness ==
  \E u \in Users :
    /\ Len(Stored(u)) = MAX_HISTORY
    /\ Len(log[u]) > MAX_HISTORY
    /\ ~clean[u]

\* C2: after N calls of one user that returned success:true, did not overlap and
\* had no clear in between, the stored history is the last min(2N, MAX_HISTORY)
\* turns of user1, assistant1, ..., userN, assistantN, in that order.
C2_LastTurnsOfLog ==
  \A u \in Users :
    clean[u] => Stored(u) = LastTurns(log[u], Min(Len(log[u]), MAX_HISTORY))

\* The window of C2 holds as long as every call that returned success:true
\* returned a message that is not empty.
WindowOfNonEmptyLog ==
  \A u \in Users :
    (clean[u] /\ \A i \in 1..Len(log[u]) : log[u][i].content # <<>>)
      => Stored(u) = LastTurns(log[u], Min(Len(log[u]), MAX_HISTORY))

\* a history of non-overlapping calls from which turns were evicted
WindowOfNonEmptyLogReached ==
  \E u \in Users :
    /\ clean[u]
    /\ Len(log[u]) > MAX_HISTORY
    /\ \A i \in 1..Len(log[u]) : log[u][i].content # <<>>

\* C3: no step of a call other than a return of success:true changes what the
\* Map holds for any user: a call that fails or returns null leaves the history
\* as it was, and creates no entry.
C3_FailedCallFrame ==
  [][ ( \/ ret'.returned /\ ~ret'.result.success
        \/ ~ret'.returned /\ calls' # calls )
      => StoreView' = StoreView ]_vars

\* C3, witness: a call failed for a user who has a stored history
C3_Witness ==
  /\ CallReturned
  /\ ~ret.result.success
  /\ ret.requests > 0
  /\ Stored(ret.userId) # <<>>

\* C4: without a key every call returns null, no request is ever issued and
\* the history is neither read nor written.
C4_DisabledWithoutKey ==
  env.HF_API_KEY \in {Unset, ""} =>
    /\ started = 0
    /\ calls = <<>>
    /\ conversationHistory = <<>>
    /\ arrays = <<>>
    /\ ret.returned => /\ ret.result = Null
                       /\ ret.requests = 0
                       /\ ~ret.historyRead

\* C4, witness: a call returned while the key is the empty string
C4_Witness == env.HF_API_KEY = "" /\ ret.returned

\* C5: a result with success:true carries a message that is not empty and has
\* no whitespace at either end.
C5_MessageTrimmedNonEmpty ==
  (CallReturned /\ ret.result.success) =>
    /\ ret.result.message # <<>>
    /\ Head(ret.result.message) \notin Whitespace
    /\ ret.result.message[Len(ret.result.message)] \notin Whitespace

\* C6: when a call returns success:true, the last two turns of the history of
\* its user are the user turn with its message and the assistant turn with the
\* returned message.
C6_SuccessAppended ==
  (CallReturned /\ ret.result.success) =>
    /\ Len(Stored(ret.userId)) >= 2
    /\ LastTurns(Stored(ret.userId), 2)
         = <<Turn("user", ret.userMessage), Turn("assistant", ret.result.message)>>

\* C7: a call that ends without a 2xx response, the last HTTP response it
\* received being a 503, fails with provider_unavailable; the last being any
\* other status, it fails with api_error; a fetch rejected later changes nothing.
C7_LastResponseClassified ==
  (CallReturned /\ ret.observed # NoResponse /\ ~Ok(ret.observed)) =>
    /\ ~ret.result.success
    /\ ret.result.errorType =
         IF ret.observed.status = 503 THEN "provider_unavailable" ELSE "api_error"

\* C7, witness: the last response was a 503 and the fetches after it were rejected
C7_Witness ==
  /\ CallReturned
  /\ ret.observed.status = 503
  /\ ret.rejectedLast

\* the 2xx bodies that hold no generated text
NoTextBodies ==
  {"{}", "<html>", "null", "[]", "[{\"generated_text\":\"\"}]",
   "{\"choices\":[null]}", "{\"generated_text\":42}"}

\* C8: when a 2xx response holds no generated text, the call fails with
\* api_error in that step, having issued no other request, and the Map is unchanged.
C8_EmptyBodyFails ==
  [][ (ret'.returned /\ Ok(ret'.observed) /\ ret'.observed.body \in NoTextBodies)
      => /\ ~ret'.result.success
         /\ ret'.result.errorType = "api_error"
         /\ StoreView' = StoreView
         /\ \E c \in DOMAIN calls \ DOMAIN calls' : calls[c].requests = ret'.requests ]_vars

\* C8, witness: the body {} answered a call of a user who has a stored history
C8_Witness ==
  /\ CallReturned
  /\ ret.observed = [status |-> 200, body |-> "{}"]
  /\ Stored(ret.userId) # <<>>

\* C9: no exception leaves a call: a call returns null exactly when there is no
\* key, and otherwise success:true with a message or success:false with one of
\* the four error types; an exception raised before any request gives unknown.
C9_NothingEscapes ==
  ret.returned =>
    /\ ~ret.result.thrown
    /\ ret.result.isNull <=> env.HF_API_KEY \in {Unset, ""}
    /\ (~ret.result.isNull /\ ~ret.result.success) => ret.result.errorType \in ErrorTypes
    /\ (~ret.result.isNull /\ ret.requests = 0) =>
         ~ret.result.success /\ ret.result.errorType = "unknown"

\* C9, witness: an exception raised while the message list was built
C9_Witness ==
  /\ CallReturned
  /\ ret.requests = 0
  /\ ret.result.errorType = "unknown"

\* C10: when every candidate answers 401 or 403 the call fails with
\* insufficient_balance.
C10_InsufficientBalance ==
  (CallReturned /\ ret.authOnly) => ret.result.errorType = "insufficient_balance"

\* C11: clearUserHistory never fails and is idempotent: it can run in every
\* state; after it the user has no entry; for a user with no entry it leaves the
\* Map and every array as they were; and run a second time it changes nothing.
C11_ClearIdempotent ==
  /\ [](\A u \in Users : ENABLED ClearUserHistory(u))
  /\ [][ \A u \in Users : ClearUserHistory(u) =>
          /\ StoreView'[u] = [present |-> FALSE, turns |-> <<>>]
          /\ u \notin DOMAIN conversationHistory =>
                conversationHistory' = conversationHistory /\ arrays' = arrays
          /\ ret.cleared = u =>
                conversationHistory' = conversationHistory /\ arrays' = arrays ]_vars

\* C11, witness: the history of a user who had none was cleared while the other
\* user has a history
C11_Witness ==
  /\ ret.cleared # 0
  /\ ~ret.known
  /\ log[ret.cleared] = <<>>
  /\ \E v \in Users \ {ret.cleared} : Stored(v) # <<>>

\* the list [system prompt] ++ H ++ [new user turn] of a call, H being the
\* history that was stored for its user when it started
ExpectedMessages(call) ==
  <<Turn("system", getSystemPrompt)>> \o call.read \o <<Turn("user", call.userMessage)>>

\* C12: the request of every candidate of a call is built from the list
\* [system prompt] ++ H ++ [new user turn], H being the history stored for the
\* user when the call started ([system, new user] when there was none),
\* whatever happened to the store since.
C12_MessageList ==
  \A c \in DOMAIN calls :
    /\ calls[c].messages = ExpectedMessages(calls[c])
    /\ calls[c].read = <<>> =>
          calls[c].messages = <<Turn("system", getSystemPrompt),
                                Turn("user", calls[c].userMessage)>>
    /\ calls[c].sent = body(endpoints[calls[c].endpoint], modelsToTry[calls[c].model],
                            ExpectedMessages(calls[c]))

\* C12, witness: a call that read a history issues its second request after
\* another call has changed the stored history
C12_Witness ==
  \E c \in DOMAIN calls :
    /\ calls[c].requests >= 2
    /\ calls[c].read # <<>>
    /\ Stored(calls[c].userId) # calls[c].read
    /\ calls[c].history \in DOMAIN arrays /\ arrays[calls[c].history] # calls[c].read

\* this step is a step of a getAIResponse call of user u, or clearUserHistory(u)
StepOf(u) ==
  \/ \E m \in Messages : GetAIResponseDisabled(u, m)
  \/ \E m \in Messages : GetAIResponseThrows(u, m)
  \/ \E m \in Messages : GetAIResponseStart(u, m)
  \/ \E c \in InFlight(u) :
        \/ \E r \in scope.responses : FetchOk(c, r) \/ FetchError(c, r)
        \/ FetchRejects(c)
  \/ ClearUserHistory(u)

\* C13: a step of a call of user A, or a clear of A, whatever its outcome and
\* whatever calls of other users are in flight, leaves the entry and the stored
\* turns of every other user as they were.
C13_NoCrossUser ==
  [][ \A u \in Users :
        StepOf(u) => \A v \in Users \ {u} : StoreView'[v] = StoreView[v] ]_vars

\* C13, witness: a call of one user stored its exchange, or the history of one
\* user was cleared, while another user has a history and a call in flight
C13_Witness ==
  \E u \in Users, v \in Users :
    /\ u # v
    /\ \/ ret.returned /\ ret.userId = u /\ Succeeded(ret.result)
       \/ ret.cleared = u /\ ret.known
    /\ Stored(v) # <<>>
    /\ InFlight(v) # {}

\* the response is the 400 that reports the model as not supported
IsModelNotSupported(response) ==
  /\ response.status = 400
  /\ response.body = ModelNotSupportedBody

\* no candidate is left after the one the call waits for, its outcome being
\* the last one of `after`: the last endpoint of the last model, or the last
\* model reported as not supported
Exhausted(call, after) ==
  /\ call.model = Len(modelsToTry)
  /\ \/ call.endpoint = Len(endpoints)
     \/ ~after.rejectedLast /\ IsModelNotSupported(after.observed)

\* C14: first success wins.  A call in flight has never received a 2xx
\* response; a step of a call that does not end it received no 2xx response
\* and issues exactly one request, for a candidate of the matrix; a step that
\* ends a call issues no request, and either received a 2xx response, from
\* which the result is built, or no candidate was left.
C14_FirstSuccessWins ==
  [][ \A c \in DOMAIN calls :
        /\ (c \in DOMAIN calls' /\ calls'[c] # calls[c]) =>
              /\ ~Ok(calls'[c].observed) /\ ~Ok(calls'[c].response)
              /\ calls'[c].requests = calls[c].requests + 1
              /\ calls'[c].model \in 1..Len(modelsToTry)
              /\ calls'[c].endpoint \in 1..Len(endpoints)
        /\ c \notin DOMAIN calls' =>
              /\ ret'.returned
              /\ ret'.requests = calls[c].requests
              /\ IF Ok(ret'.observed)
                   THEN /\ ~ret'.rejectedLast
                        /\ ret'.result =
                             catchUnknown(catchApiError(parseSuccess(ret'.observed)))
                   ELSE Exhausted(calls[c], ret') ]_vars

\* C14, witness: two candidates failed, the last error recorded being a 404,
\* the third answered 2xx with a chat-completion body, and the call returned
\* the text of the third response after three requests
C14_Witness ==
  /\ CallReturned
  /\ ret.requests = 3
  /\ ret.observed = [status |-> 200,
                     body |-> "{\"choices\":[{\"message\":{\"content\":\"a\"}}]}"]
  /\ ret.result = Success(<<"a">>)
  /\ ret.lastError = "404 Not Found"
  /\ ret.sent.url = <<endpoints[3].name, modelsToTry[1]>>

\* C15: the first request of a call is for the chat-completion format of the
\* first model; after a request for format f of the m-th model the next request
\* is for format f + 1 of the same model, or for the chat-completion format of
\* the next model when f was the last format or when the answer was a 400 with
\* code model_not_supported.
C15_ModelMajorOrder ==
  [][ /\ \A c \in DOMAIN calls' \ DOMAIN calls :
           /\ calls'[c].model = 1
           /\ Candidate(calls'[c].sent) = <<modelsToTry[1], 1>>
      /\ \A c \in DOMAIN calls \cap DOMAIN calls' :
           calls'[c] # calls[c] =>
             LET f == Candidate(calls[c].sent)[2]
                 skip == ~calls'[c].rejectedLast /\ IsModelNotSupported(calls'[c].observed)
                 m == IF skip \/ f = 3 THEN calls[c].model + 1 ELSE calls[c].model
             IN  /\ calls'[c].model = m
                 /\ Candidate(calls'[c].sent) =
                      <<modelsToTry[m], IF skip \/ f = 3 THEN 1 ELSE f + 1>> ]_vars

\* C15, witness: the second model was reported as not supported on its second
\* endpoint format, and the next request is the first one of the third model
C15_Witness ==
  \E c \in DOMAIN calls :
    /\ calls[c].requests = 6
    /\ ~calls[c].rejectedLast
    /\ IsModelNotSupported(calls[c].observed)
    /\ Candidate(calls[c].sent) = <<modelsToTry[3], 1>>

\* C16: no call requests a (model identifier, endpoint format) pair twice,
\* whatever the configured primary model, the default one included.
C16_EachCandidateOnce == \A c \in DOMAIN calls : ~calls[c].repeated

\* No candidate is requested twice when the configured primary model is none
\* of the fallback models.
OnceForModelOffTheList ==
  env.HF_MODEL # Unset => \A c \in DOMAIN calls : ~calls[c].repeated

\* a call for a configured primary model went through the whole matrix
OnceForModelOffTheListReached ==
  /\ env.HF_MODEL # Unset
  /\ \E c \in DOMAIN calls : calls[c].requests = Len(modelsToTry) * Len(endpoints)

\* C17: a call whose every request was rejected by the network, so that it
\* never received an HTTP response, fails with provider_unavailable.
C17_UnreachableIsUnavailable ==
  (CallReturned /\ ret.requests > 0 /\ ret.observed = NoResponse) =>
    /\ ~ret.result.success
    /\ ret.result.errorType = "provider_unavailable"

\* A call that never received an HTTP response went through the whole matrix
\* and fails with api_error, its error the message of the last rejection.
UnreachableIsApiError ==
  (CallReturned /\ ret.requests > 0 /\ ret.observed = NoResponse) =>
    /\ ret.requests = Len(modelsToTry) * Len(endpoints)
    /\ ret.result = Failure(<<"fetch failed">>, "api_error")

\* a call returned without having received an HTTP response
UnreachableIsApiErrorReached ==
  CallReturned /\ ret.requests > 0 /\ ret.observed = NoResponse

\* the candidate (m2, e2) comes after (m1, e1) in the model-major order
After(m1, e1, m2, e2) == m2 > m1 \/ (m2 = m1 /\ e2 > e1)

\* C18: every network request completing or failing in the end, every call
\* that issued a request returns; a call issues at most 6 x 3 = 18 requests;
\* and a call never goes back to the candidate it is at or to an earlier one.
C18_Terminates ==
  /\ \A c \in 1..TraversalCalls :
       (c \in DOMAIN calls) ~> (c \notin DOMAIN calls /\ CallReturned)
  /\ [](/\ Len(modelsToTry) * Len(endpoints) = 18
        /\ ret.requests <= 18
        /\ \A c \in DOMAIN calls : calls[c].requests <= 18)
  /\ [][ \A c \in DOMAIN calls \cap DOMAIN calls' :
           calls'[c] # calls[c] =>
             After(calls[c].model, calls[c].endpoint,
                   calls'[c].model, calls'[c].endpoint) ]_vars

\* C18, witness: a call returned after 18 requests
C18_Witness == CallReturned /\ ret.requests = 18

\* the calls that pushed the turns stored for user u
StoredBy(u) ==
  IF u \in DOMAIN conversationHistory THEN origins[conversationHistory[u]] ELSE <<>>

\* C19: the history stored for each user is a sequence of complete exchanges:
\* its length is even, and its turns 2k - 1 and 2k are a user turn and an
\* assistant turn that one and the same call pushed, the user turn carrying the
\* message of that call.
C19_NoTearing ==
  \A u \in Users :
    /\ Len(StoredBy(u)) = Len(Stored(u))
    /\ Len(Stored(u)) % 2 = 0
    /\ \A k \in 1..(Len(Stored(u)) \div 2) :
         /\ Stored(u)[2 * k - 1].role = "user"
         /\ Stored(u)[2 * k].role = "assistant"
         /\ StoredBy(u)[2 * k - 1] = StoredBy(u)[2 * k]
         /\ Stored(u)[2 * k - 1].content \in scope.messages[StoredBy(u)[2 * k]]

\* C19, witness: a full history from which turns were evicted and in which the
\* exchange of a later call stands before the exchange of an earlier one
C19_Witness ==
  \E u \in Users :
    /\ Len(Stored(u)) = MAX_HISTORY
    /\ Len(log[u]) > MAX_HISTORY
    /\ \E k \in 1..(MAX_HISTORY \div 2 - 1) :
         StoredBy(u)[2 * k] > StoredBy(u)[2 * k + 1]

\* every exchange stored for user u is the exchange of a call that returned
\* success:true after the last clearUserHistory(u)
StoredSinceClear(u) ==
  \A k \in 1..(Len(Stored(u)) \div 2) :
    \E j \in 1..(Len(log[u]) \div 2) :
      /\ log[u][2 * j - 1] = Stored(u)[2 * k - 1]
      /\ log[u][2 * j] = Stored(u)[2 * k]

\* C20: no turn that was stored for a user before clearUserHistory ran for that
\* user is part of the stored history afterwards, also when a call that started
\* before the clear returns success:true after it.
C20_ClearedForGood == \A u \in Users : StoredSinceClear(u)

\* A clear that runs while no call of the user is in flight removes the
\* history for good, as long as the calls that follow do not overlap.
ClearedForGoodWhenIdle == \A u \in Users : clean[u] => StoredSinceClear(u)

\* a stored history was cleared while no call of its user was in flight
ClearedForGoodWhenIdleReached ==
  /\ ret.cleared # 0
  /\ ret.known
  /\ clean[ret.cleared]
  /\ Stored(ret.cleared) = <<>>

\* the exchange of the call p is part of the history stored for user u
PairStored(u, p) ==
  \E k \in 1..(Len(Stored(u)) \div 2) :
    /\ Stored(u)[2 * k - 1].role = "user"
    /\ Stored(u)[2 * k - 1].content \in scope.messages[p]
    /\ Stored(u)[2 * k].role = "assistant"

\* this step completed a pair of overlapping calls of one user: a call stored
\* its exchange, a call of the same user had stored its exchange while this one
\* was in flight, clearUserHistory ran for the user during neither, and fewer
\* than MAX_HISTORY turns are stored
OverlapCompleted ==
  /\ CallReturned
  /\ Succeeded(ret.result)
  /\ ~ret.interrupted
  /\ ret.peers # {}
  /\ Len(Stored(ret.userId)) < MAX_HISTORY

\* C21 as stated: when two calls of one user overlap and both succeed, then
\* once both have completed (fewer than MAX_HISTORY turns stored, no clear in
\* between) the stored history contains the exchange of both, whether or not
\* the user had a stored history when the calls started.
C21_NoExchangeLost ==
  OverlapCompleted =>
    \A p \in ret.peers \cup {ret.id} : PairStored(ret.userId, p)

\* C21, amended: when two calls of one user overlap, both read the same stored
\* array when they started and both succeed, then once both have completed
\* (fewer than MAX_HISTORY turns stored, no clear in between) the stored history
\* contains the exchange of both.
C21_NoExchangeLostOnSharedArray ==
  OverlapCompleted =>
    \A p \in ret.shared \cup {ret.id} : PairStored(ret.userId, p)

\* C21, witness: the second of two overlapping calls that read the same stored
\* array completed, and the history holds the exchange read and the two new ones
C21_Witness ==
  /\ OverlapCompleted
  /\ ret.shared # {}
  /\ Len(Stored(ret.userId)) >= 6

====
